---- MODULE Spec2Model ----
(***************************************************************************)
(* Model of src/n_m3u8dl_re.py: MediaDownloader.                           *)
(*                                                                         *)
(* One MediaDownloader object is constructed per run of the tool; every    *)
(* run uses the same save_dir and the same save_name, so the working       *)
(* directory tmp_dir = save_dir/tmp_<save_name> is shared by the runs and  *)
(* is never cleaned by the code.  The model follows the tool through two   *)
(* consecutive runs: a first run over empty directories and a second run   *)
(* over what the first left.  A run is handle_hls or handle_dash:          *)
(* fetch the manifest, (DASH) fetch the initialization segment, submit one *)
(* task per segment to a ThreadPoolExecutor, wait, merge_files, (DASH)     *)
(* decrypt_mp4.                                                            *)
(*                                                                         *)
(* A file's contents are a sequence of body tokens; a token names the URL  *)
(* the bytes came from, whether they are a success body or the body of an  *)
(* error response, and how many times they went through a decryption.      *)
(*                                                                         *)
(* DASH manifests of the model carry a SegmentTimeline; the $Number$       *)
(* fallback plans 100 segments, more than MaxPlan.                         *)
(***************************************************************************)
EXTENDS Integers, Sequences, FiniteSets, TLC

\* ---------------------------------------------------------------- bounds
MaxPlan == 3
MaxThreads == 2
MaxEntries == 2
MaxRepeat == 2
MaxIvIndex == 300
MaxReps == 4
MaxSets == 2
MaxParams == 1

\* ------------------------------------------------------- program constants
\* f"seg_{i:05d}": the index is formatted to at least five digits
PadWidth == 5

\* ------------------------------------------------------------- file names
\* A directory entry is <<stem, index, extension>>.
SegName(i, ext) == <<"seg", i, ext>>
InitName == <<"init", 0, "mp4">>
MergedName == <<"merged_encrypted", 0, "mp4">>
OutName(ext) == <<"output", 0, ext>>

\* ord() of the characters the names are made of
Ord(c) ==
  CASE c = "." -> 46 [] c = "4" -> 52 [] c = "_" -> 95
    [] c = "c" -> 99 [] c = "d" -> 100 [] c = "e" -> 101 [] c = "g" -> 103
    [] c = "i" -> 105 [] c = "m" -> 109 [] c = "n" -> 110 [] c = "o" -> 111
    [] c = "p" -> 112 [] c = "r" -> 114 [] c = "s" -> 115 [] c = "t" -> 116
    [] c = "u" -> 117 [] c = "y" -> 121

Codes(cs) == [k \in 1..Len(cs) |-> Ord(cs[k])]

RECURSIVE Digits(_)
\* str(n) for n >= 0, as character codes
Digits(n) == IF n < 10 THEN <<48 + n>> ELSE Digits(n \div 10) \o <<48 + (n % 10)>>

\* format(n, "05d"): zero-padded to PadWidth, longer numbers kept whole
Pad(n) ==
  LET ds == Digits(n)
  IN  IF Len(ds) >= PadWidth THEN ds
      ELSE [k \in 1..(PadWidth - Len(ds)) |-> 48] \o ds

ExtChars(ext) ==
  CASE ext = "ts" -> <<"t", "s">>
    [] ext = "m4s" -> <<"m", "4", "s">>
    [] ext = "mp4" -> <<"m", "p", "4">>

StemChars(stem) ==
  CASE stem = "seg" -> <<"s", "e", "g", "_">>
    [] stem = "init" -> <<"i", "n", "i", "t">>
    [] stem = "output" -> <<"o", "u", "t", "p", "u", "t">>
    [] stem = "merged_encrypted" ->
         <<"m", "e", "r", "g", "e", "d", "_", "e", "n", "c", "r", "y", "p", "t", "e", "d">>

\* The file name as the string the code builds, as character codes.
Str(name) ==
  Codes(StemChars(name[1]))
    \o (IF name[1] = "seg" THEN Pad(name[2]) ELSE <<>>)
    \o Codes(<<".">>) \o Codes(ExtChars(name[3]))

\* f.startswith("seg_")
StartsWithSeg(name) ==
  LET s == Str(name) p == Codes(<<"s", "e", "g", "_">>)
  IN  Len(s) >= Len(p) /\ SubSeq(s, 1, Len(p)) = p

\* Python's str <: first differing character decides, else the shorter one
StrLess(a, b) ==
  \/ \E k \in 1..Len(a) :
       /\ k <= Len(b)
       /\ a[k] < b[k]
       /\ \A j \in 1..(k - 1) : a[j] = b[j]
  \/ Len(a) < Len(b) /\ SubSeq(b, 1, Len(a)) = a

RECURSIVE sorted(_)
\* sorted(names): ascending by the name strings
sorted(S) ==
  IF S = {} THEN <<>>
  ELSE LET m == CHOOSE x \in S : \A y \in S \ {x} : StrLess(Str(x), Str(y))
       IN  <<m>> \o sorted(S \ {m})

\* ------------------------------------------------------------------ paths
\* os.path.join(self.tmp_dir, f), os.path.join(self.save_dir, f), and a bare
\* relative name, which the operating system resolves in the current directory
TmpPath(name) == <<"tmp_dir", name>>
SavePath(name) == <<"save_dir", name>>
CwdPath(name) == <<"cwd", name>>

\* ----------------------------------------------------------------- bodies
None == <<>>
Some(x) == <<x>>

HlsUrl(i) == <<"hls", i>>
MediaUrl(t) == <<"media", t>>
InitUrl == <<"init", 0>>

\* response.content of a GET of url: the resource (ok) or an error page
Body(url, ok) == [url |-> url, ok |-> ok, dec |-> 0]

\* cipher.decrypt / the external tool, applied to every byte of the data
Decrypted(data) == [k \in 1..Len(data) |-> [data[k] EXCEPT !.dec = @ + 1]]

Outcomes == {"ok", "status", "transport"}

\* ------------------------------------------------------- SegmentTimeline
Durations == {5, 10}
\* the entries the expansion is checked on: t absent or a multiple of 5,
\* r absent or 0..MaxRepeat
Entries ==
  [t : {None} \cup {Some(5 * k) : k \in 0..MaxRepeat},
   d : Durations,
   r : {None} \cup {Some(k) : k \in 0..MaxRepeat}]

RECURSIVE SeqsUpTo(_, _)
SeqsUpTo(S, n) ==
  IF n = 0 THEN {<<>>}
  ELSE LET shorter == SeqsUpTo(S, n - 1)
       IN  shorter \cup {Append(q, x) : q \in {p \in shorter : Len(p) = n - 1}, x \in S}

Timelines == SeqsUpTo(Entries, MaxEntries)

RECURSIVE Repeat(_, _, _)
\* the inner loop, lines 165-168: i in range(count), appending t and adding d
Repeat(t, d, count) ==
  IF count <= 0 THEN <<>> ELSE <<t>> \o Repeat(t + d, d, count - 1)

RepeatCount_once_less(s) == IF s.r # None THEN s.r[1] ELSE 0
RepeatCount(s) == (IF s.r # None THEN s.r[1] ELSE 0) + 1

RECURSIVE ExpandFrom(_, _, _)
\* the outer loop, lines 160-169, from entry k on with the running current_time
ExpandFrom(timeline, k, current_time) ==
  IF k > Len(timeline) THEN <<>>
  ELSE LET s == timeline[k]
           t == IF s.t # None THEN s.t[1] ELSE current_time
           times == Repeat(t, s.d, RepeatCount(s))
       IN  times \o ExpandFrom(timeline, k + 1, t + Len(times) * s.d)

\* the $Time$ values of seg_urls, in order
SegmentTimes(timeline) == ExpandFrom(timeline, 1, 0)

\* the timelines the runs of the downloader are given: plans of 0..MaxPlan segments
RunTimelines ==
  {<<>>}
    \cup {<<[t |-> Some(0), d |-> 10, r |-> Some(k)]>> : k \in 0..(MaxPlan - 1)}
    \cup {<<[t |-> Some(0), d |-> 5, r |-> None], [t |-> None, d |-> 5, r |-> None]>>}

\* ------------------------------------------------------------------ state
VARIABLES
  resumed,       \* FALSE in the first run, which finds the directories empty;
                 \* TRUE in the run that follows it over what the first left
  pc,            \* position of the main thread in handle_hls / handle_dash
  kind,          \* "hls" or "dash": what run() dispatches to
  thread_count,  \* self.thread_count
  keys,          \* self.keys is non-empty (read by decrypt_mp4 alone, so the
                 \* model draws it when a DASH run begins)
  fs,            \* the file system: path -> contents, for the paths that exist
  key_info,      \* the playlist's segments carry a key (seg.key)
  timeline,      \* template.segment_timelines[0].s of the chosen representation
  seg_urls,      \* the plan: the segment URLs in order (index i is seg_urls[i+1])
  nsub,          \* number of tasks submitted so far
  queue,         \* the executor's work queue: submitted, not yet picked up
  running,       \* indices whose task is inside its segment request
  finished,      \* indices whose future is done
  n,             \* pbar.n, the progress counter
  seg_reqs,      \* segment GETs issued in this run, per index
  key_reqs,      \* key GETs issued in this run
  init_reqs,     \* initialization-segment GETs issued in this run
  dispatched,    \* tasks submitted in this run, per index
  cached0,       \* names present in tmp_dir when the run started
  files,         \* merge_files: the list it was given
  decrypt_ok,    \* what decrypt_mp4 returned: "unset", "true", "false"
  arg,           \* the manifest data a planning step is applied to, where the
                 \* step is followed alone (<<>> in the runs)
  ret            \* what that step computed (<<>> before it, and in the runs)

vars ==
  <<resumed, pc, kind, thread_count, keys, fs, key_info, timeline, seg_urls, nsub,
    queue, running, finished, n, seg_reqs, key_reqs, init_reqs, dispatched,
    cached0, files, decrypt_ok, arg, ret>>

\* len(segments) / len(seg_urls): the plan length, also the pbar's total
total == Len(seg_urls)
Indices == 0..(total - 1)

\* os.path.exists(path)
exists_never(path) == FALSE
exists(path) == path \in DOMAIN fs

\* open(path, 'wb'); f.write(data)
Written(f, path, data) == [q \in DOMAIN f \cup {path} |-> IF q = path THEN data ELSE f[q]]

\* os.listdir(self.tmp_dir)
listdir_tmp == {p[2] : p \in {q \in DOMAIN fs : q[1] = "tmp_dir"}}

Ext == IF kind = "hls" THEN "ts" ELSE "m4s"

\* target = os.path.join(self.tmp_dir, f"seg_{i:05d}.ts" / ".m4s")
target_next(i) == TmpPath(SegName(i + 1, Ext))
target_same(i) == TmpPath(SegName(0, Ext))
target(i) == TmpPath(SegName(i, Ext))

\* ---------------------------------------------------------- construction
\* __init__: the fields of a fresh object
Init ==
  /\ resumed = FALSE
  /\ fs = <<>>
  /\ pc = "start"
  /\ kind \in {"hls", "dash"}
  /\ thread_count \in 1..MaxThreads
  /\ keys = FALSE
  /\ key_info = FALSE
  /\ timeline = <<>>
  /\ seg_urls = <<>>
  /\ nsub = 0
  /\ queue = <<>>
  /\ running = {}
  /\ finished = {}
  /\ n = 0
  /\ seg_reqs = [i \in 0..(MaxPlan - 1) |-> 0]
  /\ key_reqs = 0
  /\ init_reqs = 0
  /\ dispatched = [i \in 0..(MaxPlan - 1) |-> 0]
  /\ cached0 = {}
  /\ files = <<>>
  /\ decrypt_ok = "unset"
  /\ arg = <<>>
  /\ ret = <<>>

\* The tool is started again with the same save name, keys and thread count
\* and any URL: a new object, a new progress bar and a new executor over the
\* directories the last run left.
main ==
  /\ pc \in {"done", "crashed"}
  /\ ~resumed
  /\ resumed' = TRUE
  /\ pc' = "start"
  /\ kind' \in {"hls", "dash"}
  /\ key_info' = FALSE
  /\ timeline' = <<>>
  /\ seg_urls' = <<>>
  /\ nsub' = 0
  /\ queue' = <<>>
  /\ running' = {}
  /\ finished' = {}
  /\ n' = 0
  /\ seg_reqs' = [i \in 0..(MaxPlan - 1) |-> 0]
  /\ key_reqs' = 0
  /\ init_reqs' = 0
  /\ dispatched' = [i \in 0..(MaxPlan - 1) |-> 0]
  /\ cached0' = listdir_tmp
  /\ files' = <<>>
  /\ decrypt_ok' = "unset"
  /\ keys' = FALSE
  /\ UNCHANGED <<fs, thread_count, arg, ret>>

\* ------------------------------------------------------------- the plans
\* handle_hls, lines 85-95: fetch and parse the playlist; the segments in
\* source order.  Nothing catches an exception here (a transport error of a
\* playlist GET, a playlist that does not parse): it ends the run.
handle_hls_plan ==
  /\ pc = "start"
  /\ kind = "hls"
  /\ \/ /\ pc' = "crashed"
        /\ UNCHANGED <<seg_urls, key_info>>
     \/ /\ \E K \in 0..MaxPlan : seg_urls' = [i \in 1..K |-> HlsUrl(i - 1)]
        /\ key_info' \in BOOLEAN
        /\ pc' = "submit"
  /\ UNCHANGED <<arg, ret, resumed, kind, thread_count, keys, fs, timeline, nsub, queue, running,
                 finished, n, seg_reqs, key_reqs, init_reqs, dispatched, cached0,
                 files, decrypt_ok>>

\* download_segment(url, path, pbar), lines 42-55, as one call: the file
\* system it leaves, given how the GET ends
download_segment_fs(f, url, path, outcome) ==
  IF path \in DOMAIN f THEN f
  ELSE IF outcome = "ok" THEN Written(f, path, <<Body(url, TRUE)>>)
  ELSE f

\* seg_urls of lines 157-169
DashUrls(tl) == LET ts == SegmentTimes(tl) IN [i \in 1..Len(ts) |-> MediaUrl(ts[i])]

\* handle_dash, lines 127-177: fetch and parse the MPD, download the
\* initialization segment into tmp_dir/init.mp4, expand the timeline.
\* Nothing catches an exception of the analysis (a transport error of the
\* MPD GET, an MPD without a template): it ends the run.  An MPD without a
\* video adaptation set makes handle_dash return at line 136.
handle_dash_plan ==
  /\ pc = "start"
  /\ kind = "dash"
  /\ keys' \in BOOLEAN
  /\ \/ /\ pc' \in {"crashed", "done"}
        /\ UNCHANGED <<timeline, seg_urls, fs, init_reqs>>
     \/ /\ timeline' \in RunTimelines
        /\ \E outcome \in Outcomes :
             fs' = download_segment_fs(fs, InitUrl, TmpPath(InitName), outcome)
        /\ init_reqs' = IF exists(TmpPath(InitName)) THEN init_reqs ELSE init_reqs + 1
        /\ seg_urls' = DashUrls(timeline')
        /\ pc' = "submit"
  /\ UNCHANGED <<arg, ret, resumed, kind, thread_count, key_info, nsub, queue, running,
                 finished, n, seg_reqs, key_reqs, dispatched, cached0, files,
                 decrypt_ok>>

\* ----------------------------------------------------------- the executor
\* for i, ... in enumerate(...): the loop of lines 100 / 183 has run out
loop_done_early == nsub >= total - 1
loop_done == nsub = total

\* one round of the loop: executor.submit(...) for index i = nsub,
\* lines 100-103 / 183-185
submit ==
  /\ pc = "submit"
  /\ ~loop_done
  /\ queue' = Append(queue, nsub)
  /\ dispatched' = [dispatched EXCEPT ![nsub] = @ + 1]
  /\ nsub' = nsub + 1
  /\ UNCHANGED <<arg, ret, resumed, pc, kind, thread_count, keys, fs, key_info, timeline, seg_urls,
                 running, finished, n, seg_reqs, key_reqs, init_reqs, cached0, files, decrypt_ok>>

\* ThreadPoolExecutor(max_workers=self.thread_count): a thread of the pool is
\* free to take a task
worker_free_always == TRUE
worker_free == Cardinality(running) < thread_count

\* A worker thread of the pool picks the oldest queued task; at most
\* max_workers = thread_count tasks run at a time.  The task starts with the
\* cache check (lines 43-45 / 109-111); without a cache file it issues the
\* segment GET (line 47 / 113).
task_start ==
  /\ queue # <<>>
  /\ worker_free
  /\ LET i == Head(queue) IN
       /\ queue' = Tail(queue)
       /\ IF exists(target(i))
          THEN /\ n' = n + 1
               /\ finished' = finished \cup {i}
               /\ UNCHANGED <<running, seg_reqs>>
          ELSE /\ seg_reqs' = [seg_reqs EXCEPT ![i] = @ + 1]
               /\ running' = running \cup {i}
               /\ UNCHANGED <<n, finished>>
  /\ UNCHANGED <<arg, ret, resumed, pc, kind, thread_count, keys, fs, key_info, timeline, seg_urls,
                 nsub, key_reqs, init_reqs, dispatched, cached0, files, decrypt_ok>>

\* download_segment, lines 47-55, from the response on: raise_for_status and
\* the except clause keep an error response or a transport error out of the
\* cache; only a written file advances the progress bar.
dash_task_finish(i) ==
  /\ kind = "dash"
  /\ i \in running
  /\ \E outcome \in Outcomes :
       /\ fs' = download_segment_fs(fs, seg_urls[i + 1], target(i), outcome)
       /\ n' = IF outcome = "ok" THEN n + 1 ELSE n
  /\ running' = running \ {i}
  /\ finished' = finished \cup {i}
  /\ UNCHANGED <<arg, ret, resumed, pc, kind, thread_count, keys, key_info, timeline, seg_urls, nsub,
                 queue, seg_reqs, key_reqs, init_reqs, dispatched, cached0, files,
                 decrypt_ok>>

\* download_hls_segment, lines 113-120: the data the task is about to write,
\* Some(data), or None when an exception ends the task first.  The segment
\* response is used whatever its status.  With a key: a transport error of
\* the key GET raises; an error page is no AES key (AES.new raises, its
\* length being none of 16, 24, 32); decrypt raises on data that is not a
\* whole number of blocks, which an error page may (aligned) or may not be.
hls_data_raw(url, outcome, key_outcome, aligned) ==
  IF outcome = "transport" THEN None
  ELSE IF key_info /\ key_outcome # "ok" THEN None
  ELSE Some(<<Body(url, outcome = "ok")>>)
hls_data(url, outcome, key_outcome, aligned) ==
  IF outcome = "transport" THEN None
  ELSE LET data == <<Body(url, outcome = "ok")>>
       IN  IF ~key_info THEN Some(data)
           ELSE IF key_outcome # "ok" THEN None
           ELSE IF outcome = "status" /\ ~aligned THEN None
           ELSE Some(Decrypted(data))

\* download_hls_segment, lines 113-124, from the segment response on
hls_task_finish(i) ==
  /\ kind = "hls"
  /\ i \in running
  /\ \E outcome \in Outcomes, key_outcome \in Outcomes, aligned \in BOOLEAN :
       LET data == hls_data(seg_urls[i + 1], outcome, key_outcome, aligned)
       IN  /\ key_reqs' = IF key_info /\ outcome # "transport" THEN key_reqs + 1
                          ELSE key_reqs
           /\ IF data = None
              THEN UNCHANGED <<fs, n>>
              ELSE /\ fs' = Written(fs, target(i), data[1])
                   /\ n' = n + 1
  /\ running' = running \ {i}
  /\ finished' = finished \cup {i}
  /\ UNCHANGED <<arg, ret, resumed, pc, kind, thread_count, keys, key_info, timeline, seg_urls, nsub,
                 queue, seg_reqs, init_reqs, dispatched, cached0, files, decrypt_ok>>

\* futures: one per submitted task
futures == 0..(nsub - 1)

\* concurrent.futures.wait(futures) returns (return_when = ALL_COMPLETED)
\* and the executor's with block shuts the pool down
wait_returns_first == futures = {} \/ \E i \in futures : i \in finished
wait_returns == \A i \in futures : i \in finished

\* line 104 / 186, reached when the for loop has submitted every task
wait ==
  /\ pc = "submit"
  /\ loop_done
  /\ wait_returns
  /\ pc' = "merge"
  /\ UNCHANGED <<arg, ret, resumed, kind, thread_count, keys, fs, key_info, timeline, seg_urls, nsub,
                 queue, running, finished, n, seg_reqs, key_reqs, init_reqs, dispatched,
                 cached0, files, decrypt_ok>>

\* ------------------------------------------------------------ merge_files
\* the list handed to merge_files, lines 106 and 189
merge_list ==
  LET segs == sorted({f \in listdir_tmp : StartsWithSeg(f)})
  IN  IF kind = "hls" THEN segs ELSE <<InitName>> \o segs

\* is_abs of the call: False in handle_hls, True in handle_dash
is_abs == kind = "dash"

\* output_path, line 202: save_dir/<save_name>.ts, or temp_merged as given
output_path == IF is_abs THEN TmpPath(MergedName) ELSE SavePath(OutName("ts"))

\* f_path, line 205: the name as given when is_abs, else joined to tmp_dir
f_path(f) == IF is_abs THEN CwdPath(f) ELSE TmpPath(f)

RECURSIVE Concat(_, _)
\* lines 204-208: the contents of the files of the list that exist, in order
Concat(f, list) ==
  IF list = <<>> THEN <<>>
  ELSE (IF f_path(Head(list)) \in DOMAIN f THEN f[f_path(Head(list))] ELSE <<>>)
         \o Concat(f, Tail(list))

\* merge_files(files, output_name, is_abs), lines 201-208, with the list of
\* line 106 / 189: the output is opened (created or truncated) and the files
\* of the list that exist are appended to it in list order
merge_files ==
  /\ pc = "merge"
  /\ files' = merge_list
  /\ LET opened == Written(fs, output_path, <<>>)
     IN  fs' = Written(opened, output_path, Concat(opened, merge_list))
  /\ pc' = IF kind = "hls" THEN "done" ELSE "decrypt"
  /\ UNCHANGED <<arg, ret, resumed, kind, thread_count, keys, key_info, timeline, seg_urls, nsub,
                 queue, running, finished, n, seg_reqs, key_reqs, init_reqs, dispatched,
                 cached0, decrypt_ok>>

\* ------------------------------------------------------------ decrypt_mp4
\* os.rename(input_path, output_path)
Renamed(f, from, to) ==
  [q \in (DOMAIN f \ {from}) \cup {to} |-> IF q = to THEN f[from] ELSE f[q]]

final_output == SavePath(OutName("mp4"))

\* decrypt_mp4(temp_merged, final_output), lines 57-82, and lines 196-199.
\* Without keys the merged file is renamed; onto an existing file os.rename
\* replaces it (POSIX) or raises FileExistsError (Windows), uncaught.
\* tool: how subprocess.run ends: "ok" (exit 0), "nonzero" (CalledProcessError,
\* caught) or "unavailable" (the program cannot be spawned: FileNotFoundError,
\* which the except clause does not name).
decrypt_mp4 ==
  /\ pc = "decrypt"
  /\ IF ~keys
     THEN \/ /\ fs' = Renamed(fs, output_path, final_output)
             /\ decrypt_ok' = "true"
             /\ pc' = "done"
          \/ /\ exists(final_output)
             /\ pc' = "crashed"
             /\ UNCHANGED <<fs, decrypt_ok>>
     ELSE \E tool \in {"ok", "nonzero", "unavailable"} :
            /\ fs' = IF tool = "ok"
                     THEN Written(fs, final_output, Decrypted(fs[output_path]))
                     ELSE fs
            /\ decrypt_ok' = CASE tool = "ok" -> "true"
                               [] tool = "nonzero" -> "false"
                               [] tool = "unavailable" -> decrypt_ok
            /\ pc' = IF tool = "unavailable" THEN "crashed" ELSE "done"
  /\ UNCHANGED <<arg, ret, resumed, kind, thread_count, keys, key_info, timeline, seg_urls, nsub,
                 queue, running, finished, n, seg_reqs, key_reqs, init_reqs, dispatched,
                 cached0, files>>

\* ------------------------------------------------------- the specification
Next ==
  \/ main
  \/ handle_hls_plan
  \/ handle_dash_plan
  \/ submit
  \/ task_start
  \/ \E i \in 0..(MaxPlan - 1) : dash_task_finish(i)
  \/ \E i \in 0..(MaxPlan - 1) : hls_task_finish(i)
  \/ wait
  \/ merge_files
  \/ decrypt_mp4

Spec == Init /\ [][Next]_vars

\* ------------------------------------------ the timeline expansion alone
\* handle_dash's expansion (lines 157-169) applied to every timeline of up
\* to MaxEntries entries
InitTimeline ==
  /\ resumed = FALSE
  /\ fs = <<>>
  /\ pc = "expand"
  /\ kind = "dash"
  /\ thread_count = 1
  /\ keys = FALSE
  /\ key_info = FALSE
  /\ timeline \in Timelines
  /\ seg_urls = <<>>
  /\ nsub = 0
  /\ queue = <<>>
  /\ running = {}
  /\ finished = {}
  /\ n = 0
  /\ seg_reqs = [i \in 0..(MaxPlan - 1) |-> 0]
  /\ key_reqs = 0
  /\ init_reqs = 0
  /\ dispatched = [i \in 0..(MaxPlan - 1) |-> 0]
  /\ cached0 = {}
  /\ files = <<>>
  /\ decrypt_ok = "unset"
  /\ arg = <<>>
  /\ ret = <<>>

handle_dash_expand ==
  /\ pc = "expand"
  /\ seg_urls' = DashUrls(timeline)
  /\ pc' = "expanded"
  /\ UNCHANGED <<arg, ret, resumed, kind, thread_count, keys, fs, key_info, timeline, nsub, queue,
                 running, finished, n, seg_reqs, key_reqs, init_reqs, dispatched,
                 cached0, files, decrypt_ok>>

SpecTimeline == InitTimeline /\ [][handle_dash_expand]_vars

\* ------------------------------------------------ the pure steps alone
\* The specifications below apply one computation of the handlers to every
\* input of a bounded set; the downloader itself stays as constructed.
Constructed ==
  /\ resumed = FALSE
  /\ fs = <<>>
  /\ kind = "hls"
  /\ thread_count = 1
  /\ keys = FALSE
  /\ key_info = FALSE
  /\ timeline = <<>>
  /\ seg_urls = <<>>
  /\ nsub = 0
  /\ queue = <<>>
  /\ running = {}
  /\ finished = {}
  /\ n = 0
  /\ seg_reqs = [i \in 0..(MaxPlan - 1) |-> 0]
  /\ key_reqs = 0
  /\ init_reqs = 0
  /\ dispatched = [i \in 0..(MaxPlan - 1) |-> 0]
  /\ cached0 = {}
  /\ files = <<>>
  /\ decrypt_ok = "unset"

Untouched ==
  UNCHANGED <<resumed, kind, thread_count, keys, fs, key_info, timeline,
              seg_urls, nsub, queue, running, finished, n, seg_reqs, key_reqs,
              init_reqs, dispatched, cached0, files, decrypt_ok>>

\* ---------------------------------------------------------------- the IV
\* bytes are numbers 0..255, text is a sequence of one-character strings
IvLen == 16
Byte == 256
LowerHex == <<"0", "1", "2", "3", "4", "5", "6", "7", "8", "9",
              "a", "b", "c", "d", "e", "f">>
UpperHex == <<"0", "1", "2", "3", "4", "5", "6", "7", "8", "9",
              "A", "B", "C", "D", "E", "F">>
IsHex(c) == \E v \in 1..16 : LowerHex[v] = c \/ UpperHex[v] = c
HexVal(c) == (CHOOSE v \in 1..16 : LowerHex[v] = c \/ UpperHex[v] = c) - 1

RECURSIVE ShiftBytes(_, _)
\* v with its j lowest bytes dropped
ShiftBytes(v, j) == IF j = 0 THEN v ELSE ShiftBytes(v \div Byte, j - 1)

\* index.to_bytes(16, 'big')
to_bytes(index) == [k \in 1..IvLen |-> ShiftBytes(index, IvLen - k) % Byte]

RECURSIVE replace_0x(_)
\* str.replace('0x', ''): every occurrence of the two characters 0x, found
\* from the left, is taken out
replace_0x(s) ==
  IF Len(s) < 2 THEN s
  ELSE IF s[1] = "0" /\ s[2] = "x" THEN replace_0x(SubSeq(s, 3, Len(s)))
  ELSE <<s[1]>> \o replace_0x(Tail(s))

\* bytes.fromhex: two hexadecimal digits of either case per byte; ValueError
\* is raised on any other character or on an odd number of digits
fromhex(s) ==
  IF Len(s) % 2 = 1 \/ \E k \in 1..Len(s) : ~IsHex(s[k])
  THEN [raised |-> "ValueError", bytes |-> <<>>]
  ELSE [raised |-> "",
        bytes |-> [k \in 1..(Len(s) \div 2) |->
                     16 * HexVal(s[2 * k - 1]) + HexVal(s[2 * k])]]

\* line 118: iv = bytes.fromhex(key_info.iv.replace('0x', '')) if key_info.iv
\*           else index.to_bytes(16, 'big')
iv_of(key_iv, index) ==
  IF key_iv # None THEN fromhex(replace_0x(key_iv[1]))
  ELSE [raised |-> "", bytes |-> to_bytes(index)]

\* The IV attribute of EXT-X-KEY as the playlist gives it: 0x or 0X and 32
\* hexadecimal digits; here 30 zeros and two digits of IvDigits.
IvDigits == {"0", "3", "a", "F"}
IvPrefixes == {<<"0", "x">>, <<"0", "X">>}
IvTexts ==
  {pre \o [k \in 1..(2 * IvLen - 2) |-> "0"] \o <<d1, d2>> :
     pre \in IvPrefixes, d1 \in IvDigits, d2 \in IvDigits}

InitIV ==
  /\ Constructed
  /\ pc = "iv"
  /\ arg \in [index : 0..MaxIvIndex, iv : {None} \cup {Some(t) : t \in IvTexts}]
  /\ ret = <<>>

download_hls_segment_iv ==
  /\ pc = "iv"
  /\ ret' = Some(iv_of(arg.iv, arg.index))
  /\ pc' = "cipher"
  /\ UNCHANGED arg
  /\ Untouched

SpecIV == InitIV /\ [][download_hls_segment_iv]_vars

\* ------------------------------------------------- the best rendition
\* max(renditions, key=bandwidth) (lines 90 and 139): Python's max goes
\* through the items in order and replaces the one it holds only by an item
\* whose key is greater.
key_greater_or_equal(a, b) == a >= b
key_greater(a, b) == a > b

RECURSIVE max_from(_, _, _)
\* the position of the item max holds after items k..Len(bandwidths), holding
\* the item at position best before
max_from(bandwidths, best, k) ==
  IF k > Len(bandwidths) THEN best
  ELSE max_from(bandwidths,
                IF key_greater(bandwidths[k], bandwidths[best]) THEN k ELSE best,
                k + 1)

\* zero-based position of max(renditions, key=lambda r: r.bandwidth)
max_bandwidth(bandwidths) == max_from(bandwidths, 1, 2) - 1

BandwidthValues == {500, 1200, 3000}
Renditions == UNION {[1..len -> BandwidthValues] : len \in 1..MaxReps}

InitSelect ==
  /\ Constructed
  /\ pc = "select"
  /\ arg \in Renditions
  /\ ret = <<>>

select_best ==
  /\ pc = "select"
  /\ ret' = Some(max_bandwidth(arg))
  /\ pc' = "selected"
  /\ UNCHANGED arg
  /\ Untouched

SpecSelect == InitSelect /\ [][select_best]_vars

\* -------------------------------------------- the DASH adaptation sets
\* An adaptation set of the first period: its contentType ("" when absent),
\* whether any of its representations has a width, and whether it or its
\* representations carry a SegmentTemplate.
AdaptationSets ==
  [content_type : {"video", "audio", ""}, width : BOOLEAN, template : BOOLEAN]
Periods == UNION {[1..len -> AdaptationSets] : len \in 0..MaxSets}

\* line 133: s.content_type == 'video' or (not s.content_type and any(r.width ...))
is_video(s) == s.content_type = "video" \/ (s.content_type = "" /\ s.width)

\* positions of the period's sets that pass the filter of line 133, in order
video_sets(period) == {k \in 1..Len(period) : is_video(period[k])}

\* Lines 133-147: no video set: the handler returns, nothing is produced;
\* otherwise the first video set is the one set the run goes on with, and a
\* set with no SegmentTemplate ends the run with an exception at line 147.
select_sets(period) ==
  IF video_sets(period) = {} THEN [raised |-> "", planned |-> {}]
  ELSE LET v_set == CHOOSE k \in video_sets(period) :
                      \A j \in video_sets(period) : k <= j
       IN  IF period[v_set].template
           THEN [raised |-> "", planned |-> {v_set}]
           ELSE [raised |-> "TypeError", planned |-> {}]

InitDash ==
  /\ Constructed
  /\ pc = "sets"
  /\ arg \in Periods
  /\ ret = <<>>

handle_dash_sets ==
  /\ pc = "sets"
  /\ ret' = Some(select_sets(arg))
  /\ pc' = "planned"
  /\ UNCHANGED arg
  /\ Untouched

SpecDash == InitDash /\ [][handle_dash_sets]_vars

\* ------------------------------------------------------ the derived URLs
\* A URL or a URI reference of a manifest: abs when it has a scheme and a
\* host, rooted when its path starts with /, the directories and the file
\* name of its path, and the parameters of its query (none of which holds a
\* slash).
QueryParams == 1..MaxParams
Dirs == {<<>>, <<"v">>}
Refs ==
  {r \in [abs : BOOLEAN, rooted : BOOLEAN, dir : Dirs, file : {"s"},
          query : SUBSET QueryParams] : r.abs => r.rooted}
ManifestUrls ==
  [abs : {TRUE}, rooted : {TRUE}, dir : {<<"d">>}, file : {"m"},
   query : SUBSET QueryParams]

\* urllib.parse.urljoin(base, ref) for a reference with a path: an absolute
\* reference is the result; otherwise the path of the reference replaces the
\* last segment of the base's path, or the whole path when the reference is
\* rooted, and the query is the reference's.
urljoin(base, ref) ==
  IF ref.abs THEN ref
  ELSE [abs |-> TRUE, rooted |-> TRUE,
        dir |-> IF ref.rooted THEN ref.dir ELSE base.dir \o ref.dir,
        file |-> ref.file, query |-> ref.query]

\* line 141: self.input_url.rsplit('/', 1)[0] + '/': what follows the last
\* slash, the file name and the query, is cut off
rsplit_base(url) == [url EXCEPT !.file = "", !.query = {}]

\* Lines 89-91 and 101: the segment URLs of an HLS run; a variant playlist's
\* URI is joined to the manifest URL first and becomes input_url.
hls_urls(manifest, variant, seg) ==
  LET input_url == IF variant # None THEN urljoin(manifest, variant[1])
                   ELSE manifest
  IN  [init |-> None, segment |-> urljoin(input_url, seg)]

\* Lines 141-151 and 165/175: base_url, then the initialization and media
\* templates joined to it.
dash_urls(manifest, base, init, seg) ==
  LET base_url == IF base # None THEN urljoin(rsplit_base(manifest), base[1])
                  ELSE rsplit_base(manifest)
  IN  [init |-> Some(urljoin(base_url, init)), segment |-> urljoin(base_url, seg)]

\* mid: the variant URI (HLS) or the BaseURL (DASH), when the manifest has one
InitUrls ==
  /\ Constructed
  /\ pc = "urls"
  /\ arg \in [kind : {"hls"}, manifest : ManifestUrls,
              mid : {None} \cup {Some(r) : r \in Refs},
              init : {None}, seg : Refs]
          \cup
             [kind : {"dash"}, manifest : ManifestUrls,
              mid : {None} \cup {Some(r) : r \in Refs},
              init : {Some(r) : r \in Refs}, seg : Refs]
  /\ ret = <<>>

derive_urls ==
  /\ pc = "urls"
  /\ ret' = Some(IF arg.kind = "hls"
                 THEN hls_urls(arg.manifest, arg.mid, arg.seg)
                 ELSE dash_urls(arg.manifest, arg.mid, arg.init[1], arg.seg))
  /\ pc' = "derived"
  /\ UNCHANGED arg
  /\ Untouched

SpecUrls == InitUrls /\ [][derive_urls]_vars

\* ================================================================ claims
\* what the claims speak of
hls_output == SavePath(OutName("ts"))
temp_merged == TmpPath(MergedName)
Fetched == pc \in {"merge", "decrypt", "done"}

AllOk(data) == \A k \in 1..Len(data) : data[k].ok

RECURSIVE CacheFrom(_, _)
\* the cache files of plan indices i, i+1, ..., total-1, one after the other;
\* with only_ok, those that hold a success body
CacheFrom(i, only_ok) ==
  IF i >= total THEN <<>>
  ELSE (IF target(i) \in DOMAIN fs /\ (only_ok => AllOk(fs[target(i)]))
        THEN fs[target(i)] ELSE <<>>)
         \o CacheFrom(i + 1, only_ok)

\* C1: when an HLS run has merged, the output file holds the bytes of the
\* plan's fetched segments in ascending plan index 0, 1, 2, ... and nothing else.
C1_OutputIsPlanInIndexOrder ==
  (kind = "hls" /\ pc = "done") => fs[hls_output] = CacheFrom(0, FALSE)

\* C2: once the merge step is reached, in an HLS and in a DASH run, every
\* submitted fetch task has finished: nothing is queued, nothing is running,
\* and every plan index has a finished task.
C2_MergeAfterEveryFetchFinished ==
  Fetched => (queue = <<>> /\ running = {} /\ finished = Indices)

C2_Witness ==
  /\ pc = "merge"
  /\ total >= 2
  /\ \A i \in Indices : seg_reqs[i] = 1

\* C3: in a first HLS run in which a segment fetch failed, the output holds
\* exactly the bytes of the successfully fetched segments in ascending index:
\* nothing of a failed fetch, no padding.
C3_OutputIsSuccessfulSegments ==
  (~resumed /\ kind = "hls" /\ pc = "done") => fs[hls_output] = CacheFrom(0, TRUE)

\* C4: the body of an error response is never written to a file: not to a
\* cache file and not to an output.
C4_NoErrorBodyStored ==
  \A p \in DOMAIN fs : AllOk(fs[p])

\* the cache as the run found it
CachedAtStart(i) == SegName(i, Ext) \in cached0
AllCachedAtStart ==
  /\ \A i \in Indices : CachedAtStart(i)
  /\ kind = "dash" => InitName \in cached0

\* C5: a run that finds a cache file for every entry of its plan (for DASH
\* the initialization segment included) issues no segment request and no key
\* request, and when its fetch phase is over the progress counter equals the
\* plan length.
C5_CachedRunIssuesNoRequest ==
  (pc # "start" /\ AllCachedAtStart) =>
    /\ \A i \in Indices : seg_reqs[i] = 0
    /\ key_reqs = 0
    /\ init_reqs = 0
    /\ Fetched => n = total

C5_Witness ==
  /\ resumed
  /\ kind = "hls"
  /\ key_info
  /\ pc = "done"
  /\ total >= 2
  /\ AllCachedAtStart
  /\ n = total

\* C6: no index is dispatched or requested more than once and nothing outside
\* the plan is dispatched; when the fetch phase is over every plan index has
\* been dispatched to exactly one task, which issued exactly one segment
\* request if the run found no cache file for the index and none if it did.
C6_EachEntryDispatchedOnce ==
  /\ \A i \in 0..(MaxPlan - 1) :
       /\ dispatched[i] <= 1
       /\ seg_reqs[i] <= dispatched[i]
       /\ i \notin Indices => dispatched[i] = 0
  /\ Fetched =>
       \A i \in Indices :
         /\ dispatched[i] = 1
         /\ seg_reqs[i] = IF CachedAtStart(i) THEN 0 ELSE 1

C6_Witness ==
  /\ resumed
  /\ pc = "done"
  /\ total >= 2
  /\ CachedAtStart(0)
  /\ ~CachedAtStart(1)
  /\ seg_reqs[0] = 0
  /\ seg_reqs[1] = 1

\* C7: when the fetch phase of a run is over, the progress counter equals
\* the plan length, whether or not fetches failed.
C7_ProgressEndsAtPlanLength ==
  Fetched => n = total

\* C8: a DASH run that has merged does not end in an uncaught error, whatever
\* the external decryption tool does; if decryption failed the still-encrypted
\* concatenation is kept, and otherwise the final output exists.
C8_DashRunSurvivesDecryptFailure ==
  (kind = "dash" /\ files # <<>>) =>
    /\ pc # "crashed"
    /\ (pc = "done" /\ decrypt_ok = "false") => exists(temp_merged)
    /\ (pc = "done" /\ decrypt_ok = "true") => exists(final_output)

\* C9: in a first DASH run the merged artifact is the initialization segment
\* followed by the media segments of the plan in ascending index, read from
\* tmp_dir, where the fetch step wrote them.
C9_DashMergedIsInitThenSegments ==
  (~resumed /\ kind = "dash" /\ pc = "decrypt") =>
    fs[temp_merged] =
      (IF exists(TmpPath(InitName)) THEN fs[TmpPath(InitName)] ELSE <<>>)
        \o CacheFrom(0, FALSE)

\* ---- C10
\* repeat count of an entry, absent counting as 0
Rep(s) == IF s.r = None THEN 0 ELSE s.r[1]

RECURSIVE CountUpTo(_, _)
\* number of segments of entries 1..k
CountUpTo(tl, k) == IF k <= 0 THEN 0 ELSE CountUpTo(tl, k - 1) + Rep(tl[k]) + 1

RECURSIVE SpanBetween(_, _, _)
\* time covered by entries a..b
SpanBetween(tl, a, b) ==
  IF b < a THEN 0 ELSE SpanBetween(tl, a, b - 1) + (Rep(tl[b]) + 1) * tl[b].d

\* start of entry k: its own t, or where the entries since the last stated t
\* (since time 0 if none states one) end
StartOf(tl, k) ==
  LET stated == {j \in 1..k : tl[j].t # None}
  IN  IF stated = {} THEN SpanBetween(tl, 1, k - 1)
      ELSE LET m == CHOOSE j \in stated : \A x \in stated : x <= j
           IN  tl[m].t[1] + SpanBetween(tl, m, k - 1)

PlannedTimes == [i \in 1..Len(seg_urls) |-> seg_urls[i][2]]

\* C10: the expansion of a SegmentTimeline holds, for each entry (t, d, r) in
\* order, the r+1 times t, t+d, ..., t+r*d (r absent counting as 0), an entry
\* without t starting where the entry before it ends (the first at 0);
\* [(0,10,2)] gives [0,10,20] and [(0,5,0),(None,5,0)] gives [0,5].
C10_TimelineExpansion ==
  pc = "expanded" =>
    /\ Len(PlannedTimes) = CountUpTo(timeline, Len(timeline))
    /\ \A k \in 1..Len(timeline) : \A j \in 0..Rep(timeline[k]) :
         PlannedTimes[CountUpTo(timeline, k - 1) + j + 1]
           = StartOf(timeline, k) + j * timeline[k].d
    /\ timeline = <<[t |-> Some(0), d |-> 10, r |-> Some(2)]>>
         => PlannedTimes = <<0, 10, 20>>
    /\ timeline = <<[t |-> Some(0), d |-> 5, r |-> Some(0)], [t |-> None, d |-> 5, r |-> Some(0)]>>
         => PlannedTimes = <<0, 5>>

C10_Witness ==
  /\ pc = "expanded"
  /\ Len(timeline) = 2
  /\ timeline[1].r = Some(1)
  /\ timeline[2].t = None
  /\ timeline[2].r = None
  /\ Len(seg_urls) = 3

\* ---- C15
\* plan indices whose cache file holds a success body
Succeeded == {i \in Indices : target(i) \in DOMAIN fs /\ AllOk(fs[target(i)])}

\* C15: when the fetch phase of a first run is over, the number the engine
\* shows for the segments retrieved (the progress counter, n of total) is the
\* number of plan indices whose fetch succeeded.
C15_ReportedCountIsSuccesses ==
  (~resumed /\ Fetched) => n = Cardinality(Succeeded)

\* ---- C16
\* tmp_dir/seg_<i, five digits>.<ext>, written out
CachePath(i, ext) == <<"tmp_dir", <<"seg", i, ext>>>>

\* C16: in an HLS run the plan is the playlist's segments in source order,
\* entry i being segment i; the tasks are submitted in that order, each
\* submitted index is in exactly one of queued, running, finished; and the
\* cache file seg_<i>.ts, when written, holds the body of segment i alone.
C16_HlsPlanIsPlaylistInOrder ==
  kind = "hls" =>
    /\ \A i \in Indices : seg_urls[i + 1] = HlsUrl(i)
    /\ \A a, b \in 1..Len(queue) : a < b => queue[a] < queue[b]
    /\ \A i \in 0..(MaxPlan - 1) :
         LET queued == \E a \in 1..Len(queue) : queue[a] = i
         IN  /\ i \in futures <=> (queued \/ i \in running \/ i \in finished)
             /\ ~(queued /\ i \in running)
             /\ ~(queued /\ i \in finished)
             /\ ~(i \in running /\ i \in finished)
    /\ \A i \in Indices :
         CachePath(i, "ts") \in DOMAIN fs =>
           fs[CachePath(i, "ts")] \in {<<Body(HlsUrl(i), ok)>> : ok \in BOOLEAN}
                                       \cup {Decrypted(<<Body(HlsUrl(i), ok)>>) : ok \in BOOLEAN}
    /\ Fetched => nsub = total

C16_Witness ==
  /\ kind = "hls"
  /\ ~resumed
  /\ pc = "done"
  /\ total >= 3
  /\ \A i \in Indices : CachePath(i, "ts") \in DOMAIN fs

\* C17: at every moment the number of fetch tasks inside their request is at
\* most thread_count, in HLS and in DASH runs.
C17_AtMostThreadCountRunning ==
  Cardinality(running) <= thread_count

C17_Witness ==
  /\ Cardinality(running) = thread_count
  /\ queue # <<>>
  /\ kind = "dash"

\* C18: two tasks running at the same time have different file names, and a
\* step of the fetch phase writes at most the cache file of a task that was
\* running and ends with that step, a file that did not exist before.
C18_WorkersWriteDistinctFiles ==
  /\ [](\A i, j \in running : i # j => Str(target(i)[2]) # Str(target(j)[2]))
  /\ [][(pc = "submit" /\ pc' = "submit") =>
          \A p \in DOMAIN fs' :
            (p \notin DOMAIN fs \/ fs'[p] # fs[p]) =>
              /\ p \notin DOMAIN fs
              /\ \E i \in running : i \notin running' /\ p = CachePath(i, Ext)]_vars

C18_Witness ==
  /\ Cardinality(running) >= 2
  /\ kind = "hls"

\* C19: the output of an HLS run holds bytes of this run's plan only.
C19_OutputOnlyFromPlan ==
  (kind = "hls" /\ pc = "done") =>
    \A k \in 1..Len(fs[hls_output]) :
      \E i \in Indices : fs[hls_output][k].url = seg_urls[i + 1]

\* C20: no cached HLS segment and no byte of an HLS output has been through
\* more than one decryption; a segment fetched in a run whose playlist carries
\* a key is cached decrypted once; and key requests are issued only by tasks
\* that found no cache file, at most one each.
C20_DecryptedOnce ==
  /\ \A p \in DOMAIN fs :
       (p[2][3] = "ts") => \A k \in 1..Len(fs[p]) : fs[p][k].dec <= 1
  /\ (kind = "hls" /\ key_info) =>
       \A i \in Indices :
         (seg_reqs[i] = 1 /\ i \in finished /\ CachePath(i, "ts") \in DOMAIN fs)
           => \A k \in 1..Len(fs[CachePath(i, "ts")]) : fs[CachePath(i, "ts")][k].dec = 1
  /\ kind = "hls" =>
       key_reqs <= Cardinality({i \in Indices : ~CachedAtStart(i) /\ i \in finished})

C20_Witness ==
  /\ resumed
  /\ kind = "hls"
  /\ key_info
  /\ pc = "done"
  /\ total >= 2
  /\ CachedAtStart(0)
  /\ fs[CachePath(0, "ts")] = Decrypted(<<Body(HlsUrl(0), TRUE)>>)
  /\ ~CachedAtStart(1)
  /\ CachePath(1, "ts") \in DOMAIN fs
  /\ key_reqs = 1
  /\ fs[hls_output] = Decrypted(<<Body(HlsUrl(0), TRUE), Body(HlsUrl(1), TRUE)>>)

\* ---- C11
\* the 16 bytes the digits after the two-character prefix stand for
IvValue(text) ==
  [k \in 1..IvLen |-> 16 * HexVal(text[2 * k + 1]) + HexVal(text[2 * k + 2])]

\* C11: the IV handed to the cipher is the explicit IV's 16 bytes when the key
\* has an IV, and otherwise the plan index as 16 bytes, most significant
\* first.
C11_IvIsExplicitOrIndex ==
  (pc = "cipher") =>
    /\ ret[1].raised = ""
    /\ ret[1].bytes = IF arg.iv # None
                      THEN IvValue(arg.iv[1])
                      ELSE [k \in 1..IvLen |->
                              IF k = IvLen THEN arg.index % Byte
                              ELSE IF k = IvLen - 1 THEN (arg.index \div Byte) % Byte
                              ELSE 0]

\* ---- C12
\* C12: the rendition chosen has the greatest bandwidth of the list and every
\* rendition before it has a smaller one, so the choice is a function of the
\* list; of 500, 1200, 1200 it is the one at index 1.
C12_FirstOfMaximumBandwidth ==
  (pc = "selected") =>
    LET best == ret[1] + 1
    IN  /\ best \in 1..Len(arg)
        /\ \A k \in 1..Len(arg) : arg[k] <= arg[best]
        /\ \A k \in 1..(best - 1) : arg[k] < arg[best]
        /\ arg = <<500, 1200, 1200>> => ret[1] = 1

C12_Witness ==
  /\ pc = "selected"
  /\ arg = <<500, 1200, 1200>>
  /\ ret = <<1>>

\* ---- C14
\* the sets of one content type that can be planned
Plannable(type) ==
  {k \in 1..Len(arg) : arg[k].content_type = type /\ arg[k].template}

\* C14: for each of video and audio, a DASH run goes on with one adaptation
\* set of that type when the manifest has one that can be planned, whatever
\* happens to the other type.
C14_OneSelectionPerContentType ==
  (pc = "planned") =>
    \A type \in {"video", "audio"} :
      Plannable(type) # {} =>
        Cardinality(ret[1].planned \cap Plannable(type)) = 1

\* ---- C13
\* C13: the segment URL and the initialization URL derived from a manifest
\* have every query parameter of the manifest URL.
C13_QueryParametersPropagated ==
  (pc = "derived") =>
    /\ arg.manifest.query \subseteq ret[1].segment.query
    /\ ret[1].init # None => arg.manifest.query \subseteq ret[1].init[1].query

====
